---- MODULE Spec2Model ----
(***************************************************************************)
(* Model of the stats-app backend: the strength / schedule_strength /      *)
(* for_against computations over the match sheet (strength.py,             *)
(* schedule_strength.py, for_against.py) and the TTL cache with request    *)
(* coalescing (cache.py), and the start of the application, which loads   *)
(* snapshots into the cache and refreshes them once (app.py).              *)
(*                                                                         *)
(* Numbers.  Every win value, win rate and strength is held as an integer  *)
(* count of hundredths (Scale = 100): a win is 100, a tie 50, the sentinel *)
(* -1 is -100.  A mean is held as a fraction <<numerator, denominator>>.   *)
(* NaN in a data frame is a key that is absent from the frame's cells.     *)
(***************************************************************************)
EXTENDS Integers, Sequences, FiniteSets, TLC

VARIABLES
    df,          \* the raw rows read from the sheet (pd.read_csv)
    width,       \* number of columns of the raw CSV
    endpoint,    \* the engine entry point that ran ("none" before any)
    response,    \* what that entry point gave its caller
    now,         \* time.time()
    cache,       \* SimpleCache.cache: key -> (value, timestamp)
    in_progress, \* SimpleCache.in_progress: key -> asyncio.Lock
    locks,       \* the asyncio.Lock objects, named by the caller that made them
    pc,          \* where each get_or_compute call stands
    lockOf,      \* the local variable lock of each call
    fetched,     \* the sheet compute_fn read for each call
    outcome,     \* what each call gave its caller
    refresh      \* the background_refresh task and what startup loaded

engineVars == <<df, width, endpoint, response>>
cacheVars == <<now, cache, in_progress, locks, pc, lockOf, fetched, outcome>>
appVars == <<refresh>>
vars == <<df, width, endpoint, response,
          now, cache, in_progress, locks, pc, lockOf, fetched, outcome, refresh>>

----------------------------------------------------------------------------
(* Bounds of the model *)

NumTeams == 3
MaxScore == 2
MaxMatchId == 2
MaxRows == 2

(* Program constants *)

\* len(expected_columns)
ExpectedColumns == 12
\* round(2): two decimal places, so values are counted in hundredths
Scale == 100
\* fillna(-1), in hundredths
Sentinel == -100

Teams == 1..NumTeams
Scores == 0..MaxScore

\* A cell of the Match column: empty (NaN), text that is no number, or a number.
MatchNaN == [kind |-> "nan", id |-> 0]
MatchText == [kind |-> "str", id |-> 0]
MatchInt(n) == [kind |-> "int", id |-> n]
MatchCells == {MatchNaN, MatchText} \cup {MatchInt(n) : n \in 1..MaxMatchId}

\* One row of the sheet, after the columns that are dropped.  One match is
\* played by two teams.
RawRows ==
    {r \in [team1 : Teams, score1 : Scores, team2 : Teams, score2 : Scores,
            match : MatchCells] : r.team1 # r.team2}

Widths == {ExpectedColumns - 1, ExpectedColumns, ExpectedColumns + 1}

----------------------------------------------------------------------------
(* Helpers: sums over index sets, data frames as partial matrices *)

RECURSIVE SumIdx(_, _)
\* sum of f[i] over the finite index set I
SumIdx(f, I) ==
    IF I = {} THEN 0
    ELSE LET i == CHOOSE j \in I : TRUE
         IN  f[i] + SumIdx(f, I \ {i})

\* pd.pivot_table(E, values=v, index=r, columns=c, aggfunc='sum'):
\* E is a sequence of records with fields r, c, v.
PivotKeys(E) == {<<E[i].r, E[i].c>> : i \in DOMAIN E}
PivotRows(E, k) == {i \in DOMAIN E : E[i].r = k[1] /\ E[i].c = k[2]}
PivotSum(E) ==
    [k \in PivotKeys(E) |-> SumIdx([i \in DOMAIN E |-> E[i].v], PivotRows(E, k))]
\* ... aggfunc='count'
PivotCount(E) == [k \in PivotKeys(E) |-> Cardinality(PivotRows(E, k))]

\* index / columns of a pivot table given as its cells
IndexOf(cells) == {k[1] : k \in DOMAIN cells}
ColumnsOf(cells) == {k[2] : k \in DOMAIN cells}

\* numpy round to the nearest integer, halves to even, of num / den (den > 0)
RoundHalfEven(num, den) ==
    LET q == num \div den
        r == num % den
    IN  IF 2 * r < den THEN q
        ELSE IF 2 * r > den THEN q + 1
        ELSE IF q % 2 = 0 THEN q ELSE q + 1

\* the elements of a finite set of integers, ascending (sorted(...))
RECURSIVE SortedSeq(_)
SortedSeq(S) ==
    IF S = {} THEN <<>>
    ELSE LET m == CHOOSE x \in S : \A y \in S : x <= y
         IN  <<m>> \o SortedSeq(S \ {m})

----------------------------------------------------------------------------
(* The normalizer: strength.py 37-82, the same in the other two files *)

\* df.columns = expected_columns raises ValueError (length mismatch) unless
\* the CSV has exactly the expected number of columns; the warning logged
\* before it changes nothing.
ColumnsAssignable(w) == w = ExpectedColumns

\* MatchFilter keeping every row
MatchFilterKeepsAll(d) == d

\* df = df[df['Match '].notna()]
MatchFilter(d) == SelectSeq(d, LAMBDA r : r.match.kind # "nan")

\* MatchConvertible as if the conversion passed over cells that are no
\* number (errors='ignore')
MatchConvertibleAlways(d) == \A i \in DOMAIN d : d[i].match.kind \in {"int", "str"}

\* df['Match '].astype(int) raises when a remaining cell is no number
MatchConvertible(d) == \A i \in DOMAIN d : d[i].match.kind = "int"

\* the rows of df after the conversion, in the orientation given
Oriented(d) ==
    [i \in DOMAIN d |->
        [match |-> d[i].match.id,
         teamA |-> d[i].team1, scoreA |-> d[i].score1,
         teamB |-> d[i].team2, scoreB |-> d[i].score2]]

\* DfSwap exchanging the team columns only
DfSwapTeamsOnly(rows) ==
    [i \in DOMAIN rows |->
        [match |-> rows[i].match,
         teamA |-> rows[i].teamB, scoreA |-> rows[i].scoreA,
         teamB |-> rows[i].teamA, scoreB |-> rows[i].scoreB]]

\* df_swap: the same rows with the columns of the two sides exchanged
DfSwap(rows) ==
    [i \in DOMAIN rows |->
        [match |-> rows[i].match,
         teamA |-> rows[i].teamB, scoreA |-> rows[i].scoreB,
         teamB |-> rows[i].teamA, scoreB |-> rows[i].scoreA]]

\* DfFull concatenating df with itself
DfFullUnswapped(d) == Oriented(d) \o Oriented(d)

\* df_full = pd.concat([df, df_swap])
DfFull(d) == Oriented(d) \o DfSwap(Oriented(d))

\* Win without its second np.where: a tie counts as a loss
WinTiesLost(scoreA, scoreB) == IF scoreA > scoreB THEN Scale ELSE 0

\* WIN: np.where(Score1 > Score2, 1, 0), then 0.5 where the scores are equal
Win(scoreA, scoreB) ==
    LET first == IF scoreA > scoreB THEN Scale ELSE 0
    IN  IF scoreA = scoreB THEN Scale \div 2 ELSE first

----------------------------------------------------------------------------
(* The pairwise outcome matrix: strength.py 84-99 *)

\* WinEntries with index and columns exchanged
WinEntriesTransposed(full) ==
    [i \in DOMAIN full |->
        [r |-> full[i].teamB, c |-> full[i].teamA,
         v |-> Win(full[i].scoreA, full[i].scoreB)]]

\* the rows of df_full as pivot entries of WIN by (Team1, Team2)
WinEntries(full) ==
    [i \in DOMAIN full |->
        [r |-> full[i].teamA, c |-> full[i].teamB,
         v |-> Win(full[i].scoreA, full[i].scoreB)]]

\* df_wins = pd.pivot_table(df_full, values='WIN', index=Team1,
\*                          columns=Team2, aggfunc='sum'), NaN not yet filled
DfWins(full) == PivotSum(WinEntries(full))

\* fillna(-1) and to_dict('records'): every cell of index x columns
FillNa(cells) ==
    [a \in IndexOf(cells) |->
        [b \in ColumnsOf(cells) |->
            IF <<a, b>> \in DOMAIN cells THEN cells[<<a, b>>] ELSE Sentinel]]

----------------------------------------------------------------------------
(* The self-join on Match and the win rates: strength.py 108-166 *)

\* df_alter = df_full[['Match ', 'Team1 ', 'Score1 ']] renamed
DfAlter(full) ==
    [i \in DOMAIN full |->
        [match |-> full[i].match, altTeam |-> full[i].teamA,
         altScore |-> full[i].scoreA]]

\* DfAltMerge without the removal of the rows with Team1 = Alt_Team
DfAltMergeKeepsSelf(full) ==
    LET alter == DfAlter(full)
        pairs == {p \in (DOMAIN full) \X (DOMAIN full) :
                     full[p[1]].match = alter[p[2]].match}
    IN  [p \in pairs |->
            [r |-> full[p[1]].teamA, c |-> alter[p[2]].altTeam,
             v |-> Win(full[p[1]].scoreA, alter[p[2]].altScore)]]

\* df_full.merge(df_alter, on='Match ', how='inner'), then Alt_WIN, then the
\* rows with Team1 = Alt_Team removed.  A joined row is named by the pair of
\* the rows joined.
DfAltMerge(full) ==
    LET alter == DfAlter(full)
        pairs == {p \in (DOMAIN full) \X (DOMAIN full) :
                     /\ full[p[1]].match = alter[p[2]].match
                     /\ full[p[1]].teamA # alter[p[2]].altTeam}
    IN  [p \in pairs |->
            [r |-> full[p[1]].teamA, c |-> alter[p[2]].altTeam,
             v |-> Win(full[p[1]].scoreA, alter[p[2]].altScore)]]

\* game_counts = pivot_table(..., aggfunc='count')
GameCounts(full) == PivotCount(DfAltMerge(full))

\* df_alt_wins = pivot_table(..., aggfunc='sum').div(game_counts).round(2)
DfAltWins(full) ==
    LET sums == PivotSum(DfAltMerge(full))
        counts == GameCounts(full)
    IN  [k \in DOMAIN sums |-> RoundHalfEven(sums[k], counts[k])]

----------------------------------------------------------------------------
(* Strength and Rank *)

\* the columns of row a that hold a value (the others are NaN and skipped)
RowKeys(cells, a) == {k \in DOMAIN cells : k[1] = a}

\* RowMean summing the row without dividing
RowMeanAsSum(cells, a) == <<SumIdx(cells, RowKeys(cells, a)), 1>>

\* strength.py 170: df_alt_wins.mean(axis=1), a fraction
RowMean(cells, a) ==
    <<SumIdx(cells, RowKeys(cells, a)), Cardinality(RowKeys(cells, a))>>

\* schedule_strength.py 178: df_diff.sum(axis=1), as a fraction over 1
RowSum(cells, a) == <<SumIdx(cells, RowKeys(cells, a)), 1>>

\* order of two fractions with positive denominators
FracLess(x, y) == x[1] * y[2] < y[1] * x[2]
FracEq(x, y) == x[1] * y[2] = y[1] * x[2]

\* Rank with ascending=True
RankAscending(strength, a) ==
    LET below == Cardinality({b \in DOMAIN strength : FracLess(strength[b], strength[a])})
        tied == Cardinality({b \in DOMAIN strength : FracEq(strength[a], strength[b])})
    IN  (2 * below + tied + 1) \div 2

\* Rank with method='dense'
RankDense(strength, a) ==
    LET above == {b \in DOMAIN strength : FracLess(strength[a], strength[b])}
        tiedWith(b) == {c \in above : FracEq(strength[b], strength[c])}
    IN  1 + Cardinality({tiedWith(b) : b \in above})

\* Series.rank(ascending=False) with method='average', then astype(int):
\* the mean of the positions the tied group takes, cut to an integer
Rank(strength, a) ==
    LET above == Cardinality({b \in DOMAIN strength : FracLess(strength[a], strength[b])})
        tied == Cardinality({b \in DOMAIN strength : FracEq(strength[a], strength[b])})
    IN  (2 * above + tied + 1) \div 2

\* schedule_strength.py 166: df_wins - df_alt_wins, aligned on the union of
\* the labels; a cell missing on either side is NaN
DfDiff(full) ==
    LET wins == DfWins(full)
        alt == DfAltWins(full)
    IN  [k \in (DOMAIN wins) \cap (DOMAIN alt) |-> wins[k] - alt[k]]

\* the records of a strength matrix: per index team its cells over the
\* columns (NaN filled with -1), its Strength and its Rank
MatrixRecords(cells, index, columns, strength) ==
    [a \in index |->
        [cells |-> [b \in columns |->
                      IF <<a, b>> \in DOMAIN cells THEN cells[<<a, b>>] ELSE Sentinel],
         Strength |-> strength[a],
         Rank |-> Rank(strength, a)]]

----------------------------------------------------------------------------
(* What an entry point gives its caller *)

Raise(e) == [outcome |-> "raise", error |-> e]
Return(b) == [outcome |-> "return", body |-> b]
ErrorObject(e) == [error |-> e]
IsErrorObject(b) == "error" \in DOMAIN b

\* the first exception of the normalizer on this input, "" when there is none
NormalizeError(d, w) ==
    IF ~ColumnsAssignable(w) THEN "ValueError: Length mismatch"
    ELSE IF ~MatchConvertible(MatchFilter(d)) THEN "ValueError: invalid literal for int()"
    ELSE ""

\* strength.py 13-231: _compute_strength; every except clause re-raises
ComputeStrength(d, w) ==
    IF NormalizeError(d, w) # "" THEN Raise(NormalizeError(d, w))
    ELSE LET full == DfFull(MatchFilter(d))
             wins == DfWins(full)
             alt == DfAltWins(full)
             strength == [a \in IndexOf(alt) |-> RowMean(alt, a)]
         IN  Return([teams |-> SortedSeq(ColumnsOf(alt)),
                     matrix |-> MatrixRecords(alt, IndexOf(alt), ColumnsOf(alt), strength),
                     matrix_wins |-> FillNa(wins)])

\* schedule_strength.py 12-234: strength; the outer except returns
\* {"error": str(e)}
ScheduleStrength(d, w) ==
    IF NormalizeError(d, w) # "" THEN Return(ErrorObject(NormalizeError(d, w)))
    ELSE LET full == DfFull(MatchFilter(d))
             wins == DfWins(full)
             alt == DfAltWins(full)
             diff == DfDiff(full)
             index == IndexOf(wins) \cup IndexOf(alt)
             columns == ColumnsOf(wins) \cup ColumnsOf(alt)
             strength == [a \in index |-> RowSum(diff, a)]
         IN  Return([teams |-> SortedSeq(columns),
                     matrix |-> MatrixRecords(diff, index, columns, strength),
                     matrix_wins |-> FillNa(wins)])

----------------------------------------------------------------------------
(* For / against: for_against.py 86-120 *)

\* DfScores summing Score1 into both columns
DfScoresOwnOnly(full) ==
    LET teams == {full[i].teamA : i \in DOMAIN full}
        rowsOf(t) == {i \in DOMAIN full : full[i].teamA = t}
    IN  [t \in teams |->
            [ScoredFor |-> SumIdx([i \in DOMAIN full |-> full[i].scoreA], rowsOf(t)),
             ScoredAgainst |-> SumIdx([i \in DOMAIN full |-> full[i].scoreA], rowsOf(t))]]

\* df_full.groupby(Team1)[[Score1, Score2]].sum()
DfScores(full) ==
    LET teams == {full[i].teamA : i \in DOMAIN full}
        rowsOf(t) == {i \in DOMAIN full : full[i].teamA = t}
    IN  [t \in teams |->
            [ScoredFor |-> SumIdx([i \in DOMAIN full |-> full[i].scoreA], rowsOf(t)),
             ScoredAgainst |-> SumIdx([i \in DOMAIN full |-> full[i].scoreB], rowsOf(t))]]

\* the values of f in ascending order
RECURSIVE SortedValues(_)
SortedValues(f) ==
    IF DOMAIN f = {} THEN <<>>
    ELSE LET m == CHOOSE x \in DOMAIN f : \A y \in DOMAIN f : f[x] <= f[y]
         IN  <<f[m]>> \o SortedValues([x \in (DOMAIN f) \ {m} |-> f[x]])

\* Median taking the lower middle value of an even number of values
MedianLowerMiddle(f) ==
    LET s == SortedValues(f)
        n == Len(s)
    IN  IF n = 0 THEN <<0, 0>> ELSE <<s[(n + 1) \div 2], 1>>

\* np.median: a fraction; NaN (<<0, 0>>) of no values
Median(f) ==
    LET s == SortedValues(f)
        n == Len(s)
    IN  IF n = 0 THEN <<0, 0>>
        ELSE IF n % 2 = 1 THEN <<s[(n + 1) \div 2], 1>>
        ELSE <<s[n \div 2] + s[n \div 2 + 1], 2>>

\* for_against.py 12-137: for_against; the outer except returns
\* {"error": str(e)}
ForAgainst(d, w) ==
    IF NormalizeError(d, w) # "" THEN Return(ErrorObject(NormalizeError(d, w)))
    ELSE LET scores == DfScores(DfFull(MatchFilter(d)))
         IN  Return([df_scores |-> scores,
                     median_scored_for |-> Median([t \in DOMAIN scores |-> scores[t].ScoredFor]),
                     median_scored_against |-> Median([t \in DOMAIN scores |-> scores[t].ScoredAgainst])])

----------------------------------------------------------------------------
(* The cache: cache.py.  A get_or_compute call is a coroutine of the event *)
(* loop: it runs without interruption from one suspension point to the     *)
(* next.  It is suspended while it waits for the asyncio.Lock and while    *)
(* the compute_fn it awaits is in flight.                                  *)

\* Bounds
NumCallers == 3
MaxTime == 2
\* ttl_seconds of the SimpleCache under test, in ticks of the model's clock
TtlSeconds == 1

Callers == 1..NumCallers
Keys == {"strength", "schedule_strength"}
\* strength.py 240: cache_key of the only get_or_compute call site
CacheKey == "strength"

None == [none |-> TRUE]

\* sheets compute_fn may find: two matches, and the same with a Match cell
\* that is no number
GoodSheet ==
    <<[team1 |-> 1, score1 |-> 1, team2 |-> 2, score2 |-> 0, match |-> MatchInt(1)],
      [team1 |-> 2, score1 |-> 0, team2 |-> 3, score2 |-> 0, match |-> MatchInt(2)]>>
BadSheet ==
    <<[team1 |-> 1, score1 |-> 1, team2 |-> 2, score2 |-> 0, match |-> MatchInt(1)],
      [team1 |-> 2, score1 |-> 0, team2 |-> 3, score2 |-> 0, match |-> MatchText]>>
Sheets == {GoodSheet, BadSheet}

\* the snapshot loaded at startup (data/strength.json): an earlier result
StaticData ==
    ComputeStrength(
        <<[team1 |-> 1, score1 |-> 0, team2 |-> 2, score2 |-> 0, match |-> MatchInt(1)]>>,
        ExpectedColumns).body

\* no entry point has run
NoResponse == [outcome |-> "none"]

\* the application has not started: no snapshot is loaded, no refresh task
NoRefresh == [pc |-> "none", loaded |-> {}, sheet |-> <<>>]

\* no lock made, nobody calling
NoLock == [locked |-> FALSE, waiters |-> <<>>]

CacheIdle ==
    /\ now = 0
    /\ cache = <<>>
    /\ in_progress = <<>>
    /\ locks = [l \in Callers |-> NoLock]
    /\ pc = [c \in Callers |-> "idle"]
    /\ lockOf = [c \in Callers |-> 0]
    /\ fetched = [c \in Callers |-> <<>>]
    /\ outcome = [c \in Callers |-> [outcome |-> "none"]]

\* a dict with key k set to v / with key k deleted
DictSet(d, k, v) == [j \in (DOMAIN d) \cup {k} |-> IF j = k THEN v ELSE d[j]]
DictDel(d, k) == [j \in (DOMAIN d) \ {k} |-> d[j]]

\* Expired with >= in place of >
ExpiredAtTtl(c, t, k) == t - c[k].timestamp >= TtlSeconds

\* cache.py 46-49: the entry of k is older than the TTL
Expired(c, t, k) == t - c[k].timestamp > TtlSeconds

\* GetValue that never finds the entry
GetValueNeverHits(c, t, k) == None

\* cache.py 31-55: get, its return value ...
GetValue(c, t, k) ==
    IF k \notin DOMAIN c THEN None
    ELSE IF Expired(c, t, k) THEN None
    ELSE c[k].value

\* ... and the cache it leaves (an expired entry is deleted)
GetCache(c, t, k) ==
    IF k \in DOMAIN c /\ Expired(c, t, k) THEN DictDel(c, k) ELSE c

\* cache.py 57-67: set
SetCache(c, t, k, v) == DictSet(c, k, [value |-> v, timestamp |-> t])

\* cache.py 69-83: clear(key)
ClearCache(c, k) == IF k \in DOMAIN c THEN DictDel(c, k) ELSE c

\* cache.py 85-105: cleanup_expired
CleanupCache(c, t) ==
    [k \in {j \in DOMAIN c : ~Expired(c, t, j)} |-> c[k]]

\* asyncio.Lock.acquire takes the lock at once when it is free and nobody
\* waits for it; otherwise the caller queues and is suspended
AcquiresAtOnce(ls, l) == ~ls[l].locked /\ ls[l].waiters = <<>>

\* asyncio.Lock.release: the lock is free, the future of the first waiter
\* is set; that waiter takes the lock when the loop runs it
Released(ls, l) == [ls EXCEPT ![l].locked = FALSE]
\* WokenBy when release wakes nobody
WokenByNobody(ls, l) == {}
WokenBy(ls, l) == IF ls[l].waiters = <<>> THEN {} ELSE {Head(ls[l].waiters)}

\* strength.py 242-261: the endpoint turns an exception of get_or_compute
\* into an error object
StrengthEndpoint(o) ==
    IF o.outcome = "raise" THEN Return(ErrorObject(o.error)) ELSE Return(o.body)

\* cache.py 137-159: the body of "async with lock", run by call c that holds
\* lock l, from the state (c1, ip1, ls1, pc1); sheet is what compute_fn reads
\* if it is called.  Gives the state at the next suspension or return.
InsideLock(c, l, c1, ip1, ls1, pc1, sheet) ==
    LET value == GetValue(c1, now, CacheKey)
        c2 == GetCache(c1, now, CacheKey)
    IN  IF value # None
        THEN \* populated while waiting: the in-progress entry is deleted only
             \* if the lock is not locked, and this call holds it
             LET ip2 == IF CacheKey \in DOMAIN ip1 /\ ~ls1[l].locked
                        THEN DictDel(ip1, CacheKey) ELSE ip1
             IN  [cache |-> c2, in_progress |-> ip2, locks |-> Released(ls1, l),
                  pc |-> [x \in Callers |->
                            IF x = c THEN "done"
                            ELSE IF x \in WokenBy(ls1, l) THEN "woken" ELSE pc1[x]],
                  fetched |-> fetched,
                  outcome |-> [outcome EXCEPT ![c] = Return(value)]]
        ELSE \* cache miss: compute_fn is awaited
             [cache |-> c2, in_progress |-> ip1, locks |-> ls1,
              pc |-> [pc1 EXCEPT ![c] = "computing"],
              fetched |-> [fetched EXCEPT ![c] = sheet],
              outcome |-> outcome]

\* the variables a step of a call writes, from the record of their values
Becomes(s) ==
    /\ cache' = s.cache
    /\ in_progress' = s.in_progress
    /\ locks' = s.locks
    /\ pc' = s.pc
    /\ fetched' = s.fetched
    /\ outcome' = s.outcome

\* cache.py 119-137: a call starts, up to its first suspension or return
Call(c) ==
    /\ pc[c] = "idle"
    /\ LET value == GetValue(cache, now, CacheKey)
           c1 == GetCache(cache, now, CacheKey)
       IN  IF value # None
           THEN /\ cache' = c1
                /\ pc' = [pc EXCEPT ![c] = "done"]
                /\ outcome' = [outcome EXCEPT ![c] = Return(value)]
                /\ UNCHANGED <<in_progress, locks, lockOf, fetched>>
           ELSE LET known == CacheKey \in DOMAIN in_progress
                    l == IF known THEN in_progress[CacheKey] ELSE c
                    ip1 == IF known THEN in_progress ELSE DictSet(in_progress, CacheKey, c)
                IN  /\ lockOf' = [lockOf EXCEPT ![c] = l]
                    /\ IF AcquiresAtOnce(locks, l)
                       THEN \E sheet \in Sheets :
                                Becomes(InsideLock(c, l, c1, ip1,
                                                   [locks EXCEPT ![l].locked = TRUE],
                                                   pc, sheet))
                       ELSE /\ cache' = c1
                            /\ in_progress' = ip1
                            /\ locks' = [locks EXCEPT ![l].waiters = Append(@, c)]
                            /\ pc' = [pc EXCEPT ![c] = "waiting"]
                            /\ UNCHANGED <<fetched, outcome>>
    /\ UNCHANGED now

\* cache.py 137: a woken waiter runs: it leaves the queue, takes the lock
\* and goes on inside it
Resume(c) ==
    /\ pc[c] = "woken"
    /\ LET l == lockOf[c]
           ls1 == [locks EXCEPT ![l].locked = TRUE, ![l].waiters = Tail(@)]
       IN  \E sheet \in Sheets :
               Becomes(InsideLock(c, l, cache, in_progress, ls1, pc, sheet))
    /\ UNCHANGED <<now, lockOf>>

\* strength.py 13-231, 245: the compute_fn handed to get_or_compute computes the
\* strength ranking of the sheet it has read; its outcome on each sheet the
\* callers can read is a function of the sheet alone
ComputeFnOutcomes == {<<s, ComputeStrength(s, ExpectedColumns)>> : s \in Sheets}

compute_fn(sheet) == (CHOOSE p \in ComputeFnOutcomes : p[1] = sheet)[2]

\* ComputeDone that caches the error of a compute_fn that raised
ComputeDoneCachesError(c) ==
    /\ pc[c] = "computing"
    /\ LET r == compute_fn(fetched[c])
           l == lockOf[c]
       IN  /\ cache' = SetCache(cache, now, CacheKey,
                                IF r.outcome = "return" THEN r.body
                                ELSE ErrorObject(r.error))
           /\ outcome' = [outcome EXCEPT ![c] = r]
           /\ in_progress' = IF CacheKey \in DOMAIN in_progress
                             THEN DictDel(in_progress, CacheKey) ELSE in_progress
           /\ locks' = Released(locks, l)
           /\ pc' = [x \in Callers |->
                       IF x = c THEN "done"
                       ELSE IF x \in WokenBy(locks, l) THEN "woken" ELSE pc[x]]
    /\ UNCHANGED <<now, lockOf, fetched>>

\* ComputeDone without the finally clause
ComputeDoneKeepsEntry(c) ==
    /\ pc[c] = "computing"
    /\ LET r == compute_fn(fetched[c])
           l == lockOf[c]
       IN  /\ cache' = IF r.outcome = "return"
                       THEN SetCache(cache, now, CacheKey, r.body) ELSE cache
           /\ outcome' = [outcome EXCEPT ![c] = r]
           /\ in_progress' = in_progress
           /\ locks' = Released(locks, l)
           /\ pc' = [x \in Callers |->
                       IF x = c THEN "done"
                       ELSE IF x \in WokenBy(locks, l) THEN "woken" ELSE pc[x]]
    /\ UNCHANGED <<now, lockOf, fetched>>

\* cache.py 151-159: compute_fn returns or raises; the value is set; the
\* finally clause deletes the in-progress entry; the lock is released
ComputeDone(c) ==
    /\ pc[c] = "computing"
    /\ LET r == compute_fn(fetched[c])
           l == lockOf[c]
       IN  /\ cache' = IF r.outcome = "return"
                       THEN SetCache(cache, now, CacheKey, r.body) ELSE cache
           /\ outcome' = [outcome EXCEPT ![c] = r]
           /\ in_progress' = IF CacheKey \in DOMAIN in_progress
                             THEN DictDel(in_progress, CacheKey) ELSE in_progress
           /\ locks' = Released(locks, l)
           /\ pc' = [x \in Callers |->
                       IF x = c THEN "done"
                       ELSE IF x \in WokenBy(locks, l) THEN "woken" ELSE pc[x]]
    /\ UNCHANGED <<now, lockOf, fetched>>

\* other users of the cache (app.py): get, set, clear, cleanup_expired
Get(k) ==
    /\ cache' = GetCache(cache, now, k)
    /\ UNCHANGED <<now, in_progress, locks, pc, lockOf, fetched, outcome>>

Set(k) ==
    /\ cache' = SetCache(cache, now, k, StaticData)
    /\ UNCHANGED <<now, in_progress, locks, pc, lockOf, fetched, outcome>>

Clear(k) ==
    /\ cache' = ClearCache(cache, k)
    /\ UNCHANGED <<now, in_progress, locks, pc, lockOf, fetched, outcome>>

ClearAll ==
    /\ cache' = <<>>
    /\ UNCHANGED <<now, in_progress, locks, pc, lockOf, fetched, outcome>>

CleanupExpired ==
    /\ cache' = CleanupCache(cache, now)
    /\ UNCHANGED <<now, in_progress, locks, pc, lockOf, fetched, outcome>>

\* time passes
Tick ==
    /\ now < MaxTime
    /\ now' = now + 1
    /\ UNCHANGED <<cache, in_progress, locks, pc, lockOf, fetched, outcome>>

InitCache ==
    /\ df = <<>>
    /\ width = ExpectedColumns
    /\ endpoint = "none"
    /\ response = NoResponse
    /\ CacheIdle
    /\ refresh = NoRefresh

NextCache ==
    \/ \E c \in Callers : Call(c) /\ UNCHANGED <<engineVars, appVars>>
    \/ \E c \in Callers : Resume(c) /\ UNCHANGED <<engineVars, appVars>>
    \/ \E c \in Callers : ComputeDone(c) /\ UNCHANGED <<engineVars, appVars>>
    \/ \E k \in Keys : Get(k) /\ UNCHANGED <<engineVars, appVars>>
    \/ \E k \in Keys : Set(k) /\ UNCHANGED <<engineVars, appVars>>
    \/ \E k \in Keys : Clear(k) /\ UNCHANGED <<engineVars, appVars>>
    \/ ClearAll /\ UNCHANGED <<engineVars, appVars>>
    \/ CleanupExpired /\ UNCHANGED <<engineVars, appVars>>
    \/ Tick /\ UNCHANGED <<engineVars, appVars>>

SpecCache == InitCache /\ [][NextCache]_vars

\* a call that is suspended goes on: a woken waiter resumes, a compute_fn
\* that is awaited comes to its end (it returns or raises)
Progress ==
    \E c \in Callers : (Resume(c) \/ ComputeDone(c)) /\ UNCHANGED <<engineVars, appVars>>

\* The event loop runs a coroutine that is ready, and every compute_fn that
\* is invoked ends.
FairCalls == WF_vars(Progress)

SpecCacheFair == SpecCache /\ FairCalls

----------------------------------------------------------------------------
(* The start of the application: app.py.  startup_event loads the snapshot *)
(* files that exist into the cache and creates the background_refresh      *)
(* task, which sleeps 5 seconds, then computes and sets "strength", then   *)
(* computes and sets "schedule_strength"; any exception ends the task.     *)
(* The task runs once.                                                     *)

\* the sheet the snapshots were computed from
SnapshotSheet ==
    <<[team1 |-> 1, score1 |-> 0, team2 |-> 2, score2 |-> 0, match |-> MatchInt(1)]>>

\* app.py 74, 83: what data/strength.json and data/schedule_strength.json hold
Snapshot(k) ==
    IF k = "strength" THEN StaticData
    ELSE ScheduleStrength(SnapshotSheet, ExpectedColumns).body

\* app.py 21-27: load_static_data, files being the snapshot files that exist
load_static_data(files, k) == IF k \in files THEN Snapshot(k) ELSE None

\* app.py 62-99: startup_event; a key is set only when its snapshot was loaded
startup_event(files) ==
    /\ refresh.pc = "none"
    /\ LET strength_data == load_static_data(files, "strength")
           schedule_data == load_static_data(files, "schedule_strength")
           c1 == IF strength_data # None
                 THEN SetCache(cache, now, "strength", strength_data) ELSE cache
           c2 == IF schedule_data # None
                 THEN SetCache(c1, now, "schedule_strength", schedule_data) ELSE c1
       IN  cache' = c2
    /\ refresh' = [pc |-> "sleeping", loaded |-> files, sheet |-> <<>>]
    /\ UNCHANGED <<now, in_progress, locks, pc, lockOf, fetched, outcome>>

\* app.py 31-42: the sleep of background_refresh ends and
\* compute_strength_data is awaited; sheet is what it reads
RefreshWake(sheet) ==
    /\ refresh.pc = "sleeping"
    /\ refresh' = [refresh EXCEPT !.pc = "strength", !.sheet = sheet]
    /\ UNCHANGED cacheVars

\* app.py 42-48, 56-60: compute_strength_data returns and "strength" is set,
\* then compute_schedule_data is awaited on the sheet it reads; or
\* compute_strength_data raises and the refresh has failed
RefreshStrength(sheet) ==
    /\ refresh.pc = "strength"
    /\ LET strength_data == compute_fn(refresh.sheet)
       IN  IF strength_data.outcome = "return"
           THEN /\ cache' = SetCache(cache, now, "strength", strength_data.body)
                /\ refresh' = [refresh EXCEPT !.pc = "schedule", !.sheet = sheet]
           ELSE /\ cache' = cache
                /\ refresh' = [refresh EXCEPT !.pc = "failed"]
    /\ UNCHANGED <<now, in_progress, locks, pc, lockOf, fetched, outcome>>

\* app.py 5, 48: compute_schedule_data is schedule_strength's
\* _compute_schedule_strength, whose body is not part of the sources: it
\* either returns what the schedule_strength computation gives on the sheet
\* or raises
compute_schedule_data(sheet) ==
    {ScheduleStrength(sheet, ExpectedColumns), Raise("Exception")}

\* app.py 48-60: compute_schedule_data returns and "schedule_strength" is
\* set, or it raises and the refresh has failed
RefreshSchedule ==
    /\ refresh.pc = "schedule"
    /\ \E schedule_data \in compute_schedule_data(refresh.sheet) :
           IF schedule_data.outcome = "return"
           THEN /\ cache' = SetCache(cache, now, "schedule_strength", schedule_data.body)
                /\ refresh' = [refresh EXCEPT !.pc = "complete"]
           ELSE /\ cache' = cache
                /\ refresh' = [refresh EXCEPT !.pc = "failed"]
    /\ UNCHANGED <<now, in_progress, locks, pc, lockOf, fetched, outcome>>

\* the clock of the application: the 5 seconds of app.py 31 are shorter than
\* one unit of the clock (the TTL of cache.py 189 is 120 seconds)
TickApp ==
    /\ refresh.pc # "sleeping"
    /\ Tick

NextApp ==
    \/ \E files \in SUBSET Keys : startup_event(files) /\ UNCHANGED engineVars
    \/ \E sheet \in Sheets : RefreshWake(sheet) /\ UNCHANGED engineVars
    \/ \E sheet \in Sheets : RefreshStrength(sheet) /\ UNCHANGED engineVars
    \/ RefreshSchedule /\ UNCHANGED engineVars
    \/ \E k \in Keys : Get(k) /\ UNCHANGED <<engineVars, appVars>>
    \/ TickApp /\ UNCHANGED <<engineVars, appVars>>

SpecApp == InitCache /\ [][NextApp]_vars

----------------------------------------------------------------------------
(* The engine as a state machine: a sheet is read row by row, then one   *)
(* entry point is applied to it (one run of the engine).                 *)

InitEngine ==
    /\ df = <<>>
    /\ width \in Widths
    /\ endpoint = "none"
    /\ response = NoResponse
    /\ CacheIdle
    /\ refresh = NoRefresh

\* the sheet of the worked example: (match 1: A 10, B 8), (match 2: B 5,
\* C 5), (match 3: A 7, C 9), with A, B, C the teams 1, 2, 3
Fixture ==
    <<[team1 |-> 1, score1 |-> 10, team2 |-> 2, score2 |-> 8, match |-> MatchInt(1)],
      [team1 |-> 2, score1 |-> 5, team2 |-> 3, score2 |-> 5, match |-> MatchInt(2)],
      [team1 |-> 1, score1 |-> 7, team2 |-> 3, score2 |-> 9, match |-> MatchInt(3)]>>

\* pd.read_csv finds the sheet of the worked example
ReadFixture ==
    /\ endpoint = "none"
    /\ df = <<>>
    /\ df' = Fixture
    /\ UNCHANGED <<width, endpoint, response>>

\* one more row of the CSV; a CSV of another width is read one row less, as
\* its rows decide nothing
ReadRow ==
    /\ endpoint = "none"
    /\ Len(df) < (IF width = ExpectedColumns THEN MaxRows ELSE MaxRows - 1)
    /\ \E r \in RawRows : df' = Append(df, r)
    /\ UNCHANGED <<width, endpoint, response>>

CallComputeStrength ==
    /\ endpoint = "none"
    /\ endpoint' = "strength"
    /\ response' = ComputeStrength(df, width)
    /\ UNCHANGED <<df, width>>

CallScheduleStrength ==
    /\ endpoint = "none"
    /\ endpoint' = "schedule_strength"
    /\ response' = ScheduleStrength(df, width)
    /\ UNCHANGED <<df, width>>

CallForAgainst ==
    /\ endpoint = "none"
    /\ endpoint' = "for_against"
    /\ response' = ForAgainst(df, width)
    /\ UNCHANGED <<df, width>>

NextEngine ==
    \/ ReadRow /\ UNCHANGED <<cacheVars, appVars>>
    \/ ReadFixture /\ UNCHANGED <<cacheVars, appVars>>
    \/ CallComputeStrength /\ UNCHANGED <<cacheVars, appVars>>
    \/ CallScheduleStrength /\ UNCHANGED <<cacheVars, appVars>>
    \/ CallForAgainst /\ UNCHANGED <<cacheVars, appVars>>

SpecEngine == InitEngine /\ [][NextEngine]_vars

----------------------------------------------------------------------------
(* Vocabulary of the properties of the engine *)

\* the run gave its caller a result that is no error object
IsResult ==
    /\ endpoint # "none"
    /\ response.outcome = "return"
    /\ ~IsErrorObject(response.body)

IsRanking == IsResult /\ endpoint \in {"strength", "schedule_strength"}

\* the raw rows that survive the filter
Survivors == MatchFilter(df)

\* the games recorded between two teams
GamesBetween(a, b) ==
    {i \in DOMAIN Survivors : {Survivors[i].team1, Survivors[i].team2} = {a, b}}

\* the outcome of a game for team a, from the raw row
OutcomeFor(row, a) ==
    LET mine == IF row.team1 = a THEN row.score1 ELSE row.score2
        theirs == IF row.team1 = a THEN row.score2 ELSE row.score1
    IN  IF mine > theirs THEN Scale ELSE IF mine < theirs THEN 0 ELSE Scale \div 2

OutcomeSum(a, b) ==
    SumIdx([i \in DOMAIN Survivors |-> OutcomeFor(Survivors[i], a)], GamesBetween(a, b))

\* the teams of greatest Strength in a returned matrix
Strongest(matrix) ==
    {x \in DOMAIN matrix :
        \A y \in DOMAIN matrix : ~FracLess(matrix[x].Strength, matrix[y].Strength)}

----------------------------------------------------------------------------
(* C2: every canonical match has outcome 1 when scoreA > scoreB, 0 when    *)
(* scoreA < scoreB and 0.5 exactly when the scores are equal, and the      *)
(* outcomes of the two orientations of a raw match sum to 1.               *)
C2_OutcomesComplementary ==
    NormalizeError(df, width) = "" =>
        LET full == DfFull(Survivors)
            wins == WinEntries(full)
            n == Len(Survivors)
        IN  /\ \A i \in DOMAIN full :
                /\ full[i].scoreA > full[i].scoreB => wins[i].v = Scale
                /\ full[i].scoreA < full[i].scoreB => wins[i].v = 0
                /\ full[i].scoreA = full[i].scoreB <=> 2 * wins[i].v = Scale
            /\ Len(full) = 2 * n
            /\ \A i \in 1..n :
                /\ full[i + n].match = full[i].match
                /\ full[i + n].teamA = full[i].teamB
                /\ wins[i].v + wins[i + n].v = Scale

\* a run over a sheet with a decided match and a tied one
C2_Witness ==
    /\ IsResult
    /\ \E i, j \in DOMAIN Survivors :
        /\ Survivors[i].score1 > Survivors[i].score2
        /\ Survivors[j].score1 = Survivors[j].score2

(* C3: for every ordered pair of teams that played, matrix_wins[A][B] is   *)
(* the sum of A's outcomes over their games, and matrix_wins[A][B] +       *)
(* matrix_wins[B][A] is the number of games they played.                   *)
C3_WinsAreOutcomeSums ==
    IsRanking =>
        LET mw == response.body.matrix_wins
        IN  \A a, b \in Teams :
                (a # b /\ GamesBetween(a, b) # {}) =>
                    /\ a \in DOMAIN mw /\ b \in DOMAIN mw
                    /\ b \in DOMAIN mw[a] /\ a \in DOMAIN mw[b]
                    /\ mw[a][b] = OutcomeSum(a, b)
                    /\ mw[a][b] + mw[b][a] = Scale * Cardinality(GamesBetween(a, b))

\* a ranking over a sheet where two teams met twice, so that
\* matrix_wins[A][B] = 1 - matrix_wins[B][A] fails
C3_Witness ==
    /\ IsRanking
    /\ \E a, b \in Teams :
        /\ a # b
        /\ Cardinality(GamesBetween(a, b)) = 2
        /\ response.body.matrix_wins[a][b] # Scale - response.body.matrix_wins[b][a]

(* C4: in every returned matrix and matrix_wins a cell of a team pair with *)
(* no recorded game (a team against itself included) is -1, and a pair     *)
(* that played and lost every game has 0 in matrix_wins.                   *)
C4_SentinelForUnplayedPairs ==
    IsRanking =>
        LET m == response.body.matrix
            mw == response.body.matrix_wins
        IN  /\ \A a \in DOMAIN m : \A b \in DOMAIN m[a].cells :
                GamesBetween(a, b) = {} => m[a].cells[b] = Sentinel
            /\ \A a \in DOMAIN mw : \A b \in DOMAIN mw[a] :
                /\ GamesBetween(a, b) = {} => mw[a][b] = Sentinel
                /\ (GamesBetween(a, b) # {} /\ OutcomeSum(a, b) = 0) => mw[a][b] = 0

C6_RankMonotone ==
    IsRanking =>
        LET m == response.body.matrix
        IN  \A x \in DOMAIN m :
                LET above == Cardinality({y \in DOMAIN m : FracLess(m[x].Strength, m[y].Strength)})
                    tied == Cardinality({y \in DOMAIN m : FracEq(m[x].Strength, m[y].Strength)})
                IN  /\ 2 * m[x].Rank <= 2 * above + tied + 1
                    /\ 2 * above + tied + 1 < 2 * m[x].Rank + 2
                    /\ \A y \in DOMAIN m :
                        /\ FracLess(m[y].Strength, m[x].Strength) => m[x].Rank <= m[y].Rank
                        /\ FracEq(m[x].Strength, m[y].Strength) => m[x].Rank = m[y].Rank

\* a ranking with one team above two tied ones
C6_Witness ==
    /\ IsRanking
    /\ \E x, y, z \in DOMAIN response.body.matrix :
        LET m == response.body.matrix
        IN  /\ y # z
            /\ FracLess(m[y].Strength, m[x].Strength)
            /\ FracEq(m[y].Strength, m[z].Strength)
            /\ m[x].Rank < m[y].Rank

(* C7, as claimed: in every non-empty result the teams with the greatest   *)
(* Strength have Rank 1.                                                   *)
C7_StrongestHaveRankOne ==
    IsRanking =>
        \A x \in Strongest(response.body.matrix) : response.body.matrix[x].Rank = 1

(* C7, amended: Rank is the average position of the tied group cut to an   *)
(* integer, so the k teams that share the greatest Strength have Rank      *)
(* (k + 1) div 2: Rank 1 when one or two teams are strongest, a greater    *)
(* Rank when three or more tie for the top.                                *)
C7_StrongestHaveAverageRank ==
    IsRanking =>
        LET m == response.body.matrix
            k == Cardinality(Strongest(m))
        IN  \A x \in Strongest(m) :
                /\ m[x].Rank = (k + 1) \div 2
                /\ m[x].Rank = 1 <=> k <= 2

\* a ranking whose three teams all tie for the top
C7_Witness ==
    /\ IsRanking
    /\ Cardinality(Strongest(response.body.matrix)) = 3
    /\ \A x \in Strongest(response.body.matrix) : response.body.matrix[x].Rank = 2

(* C9: every engine entry point surfaces a failure to its caller as an     *)
(* error and never returns an error object as a normal result.             *)
C9_FailuresAreRaised ==
    endpoint # "none" =>
        /\ NormalizeError(df, width) # "" => response.outcome = "raise"
        /\ response.outcome = "return" => ~IsErrorObject(response.body)

(* C10: when the width of the raw feed differs from the expected 12, the   *)
(* run goes on with a warning and does not fail.                           *)
C10_WidthMismatchRecovers ==
    (/\ endpoint # "none"
     /\ width # ExpectedColumns
     /\ MatchConvertible(Survivors)) => IsResult

(* C11: every raw row that survives the filter gives exactly two canonical *)
(* matches with its MatchId, the row as given and the row with the two     *)
(* sides exchanged, and no other canonical match exists.                   *)
C11_TwoOrientationsPerRow ==
    NormalizeError(df, width) = "" =>
        LET full == DfFull(Survivors)
            n == Len(Survivors)
        IN  /\ Len(full) = 2 * n
            /\ \A i \in 1..n :
                /\ full[i] = [match |-> Survivors[i].match.id,
                              teamA |-> Survivors[i].team1,
                              scoreA |-> Survivors[i].score1,
                              teamB |-> Survivors[i].team2,
                              scoreB |-> Survivors[i].score2]
                /\ full[i + n] = [match |-> Survivors[i].match.id,
                                  teamA |-> Survivors[i].team2,
                                  scoreA |-> Survivors[i].score2,
                                  teamB |-> Survivors[i].team1,
                                  scoreB |-> Survivors[i].score1]

\* a run over two surviving rows, one of them with unequal scores
C11_Witness ==
    /\ IsResult
    /\ Len(Survivors) = 2
    /\ \E i \in DOMAIN Survivors : Survivors[i].score1 # Survivors[i].score2

\* the raw rows with a Match cell that is not empty
WithoutNullMatch(d) == SelectSeq(d, LAMBDA r : r.match # MatchNaN)

\* the teams of a sequence of raw rows
TeamsOf(d) == {d[i].team1 : i \in DOMAIN d} \cup {d[i].team2 : i \in DOMAIN d}

\* the teams a result names
TeamsNamed(body) ==
    IF endpoint = "for_against" THEN DOMAIN body.df_scores
    ELSE (DOMAIN body.matrix) \cup (DOMAIN body.matrix_wins)
         \cup {body.teams[i] : i \in DOMAIN body.teams}

(* C12: a raw row whose MatchId is empty is dropped: the run gives what it *)
(* gives on the sheet without such rows, and a team met in such rows only  *)
(* is named nowhere in the result.                                         *)
C12_NullMatchRowsDropped ==
    endpoint # "none" =>
        LET kept == WithoutNullMatch(df)
        IN  /\ endpoint = "strength" => response = ComputeStrength(kept, width)
            /\ endpoint = "schedule_strength" => response = ScheduleStrength(kept, width)
            /\ endpoint = "for_against" => response = ForAgainst(kept, width)
            /\ IsResult => TeamsNamed(response.body) \subseteq TeamsOf(kept)

\* a result over a sheet with a row that stays and a row without MatchId
\* that brings a team of its own
C12_Witness ==
    /\ IsResult
    /\ WithoutNullMatch(df) # <<>>
    /\ TeamsOf(df) # TeamsOf(WithoutNullMatch(df))

\* every MatchId of the surviving rows belongs to one raw match
UniqueMatchIds ==
    \A i, j \in DOMAIN Survivors :
        i # j => Survivors[i].match # Survivors[j].match

(* C13: when every MatchId belongs to exactly one raw match, the self-join *)
(* on MatchId with the rows teamA = altTeam dropped leaves one joined row  *)
(* per canonical match, whose altTeam is teamB and whose altScore is       *)
(* scoreB; so AltWin is the outcome of the match, the sums of AltWin are   *)
(* the cells of W, and GameCount[A][B] is the number of games of A and B.  *)
C13_JoinLeavesTheOpponent ==
    (NormalizeError(df, width) = "" /\ UniqueMatchIds) =>
        LET full == DfFull(Survivors)
            alter == DfAlter(full)
            merged == DfAltMerge(full)
            counts == GameCounts(full)
        IN  /\ \A i \in DOMAIN full :
                LET joined == {p \in DOMAIN merged : p[1] = i}
                IN  /\ Cardinality(joined) = 1
                    /\ \A p \in joined :
                        /\ alter[p[2]].altTeam = full[i].teamB
                        /\ alter[p[2]].altScore = full[i].scoreB
                        /\ merged[p].c = full[i].teamB
                        /\ merged[p].v = Win(full[i].scoreA, full[i].scoreB)
            /\ PivotSum(merged) = DfWins(full)
            /\ DOMAIN counts = {k \in Teams \X Teams : GamesBetween(k[1], k[2]) # {}}
            /\ \A k \in DOMAIN counts :
                counts[k] = Cardinality(GamesBetween(k[1], k[2]))

\* a ranking over two matches of the same two teams with MatchIds of their
\* own, one of them decided
C13_Witness ==
    /\ IsRanking
    /\ UniqueMatchIds
    /\ \E a, b \in Teams :
        /\ a # b
        /\ Cardinality(GamesBetween(a, b)) = 2
        /\ response.body.matrix_wins[a][b] # response.body.matrix_wins[b][a]

\* two surviving rows of different team pairs carry the same MatchId
DuplicateMatchId ==
    \E i, j \in DOMAIN Survivors :
        /\ i # j
        /\ Survivors[i].match.kind = "int"
        /\ Survivors[i].match = Survivors[j].match
        /\ {Survivors[i].team1, Survivors[i].team2} # {Survivors[j].team1, Survivors[j].team2}

(* C14: when one MatchId is on two unrelated raw matches, the strength and *)
(* schedule-strength computations fail (ComputationError) instead of       *)
(* returning a ranking result.                                             *)
C14_DuplicateMatchIdFails ==
    (endpoint \in {"strength", "schedule_strength"} /\ DuplicateMatchId) => ~IsRanking

\* the scores of team t, and of its opponents, over the surviving raw rows
OwnScores(t) ==
    SumIdx([i \in DOMAIN Survivors |->
               IF Survivors[i].team1 = t THEN Survivors[i].score1
               ELSE IF Survivors[i].team2 = t THEN Survivors[i].score2 ELSE 0],
           DOMAIN Survivors)
OpponentScores(t) ==
    SumIdx([i \in DOMAIN Survivors |->
               IF Survivors[i].team1 = t THEN Survivors[i].score2
               ELSE IF Survivors[i].team2 = t THEN Survivors[i].score1 ELSE 0],
           DOMAIN Survivors)
\* all raw scores of the surviving rows
RawScoreTotal ==
    SumIdx([i \in DOMAIN Survivors |-> Survivors[i].score1 + Survivors[i].score2],
           DOMAIN Survivors)

(* C16: for every team ScoredFor is the sum of its own scores and          *)
(* ScoredAgainst the sum of its opponents' scores over all its matches;    *)
(* over all teams ScoredFor + ScoredAgainst adds up to twice the raw       *)
(* scores of the surviving rows, and ScoredFor and ScoredAgainst have the  *)
(* same total.                                                             *)
C16_ForAgainstTotals ==
    (IsResult /\ endpoint = "for_against") =>
        LET scores == response.body.df_scores
            for == SumIdx([t \in DOMAIN scores |-> scores[t].ScoredFor], DOMAIN scores)
            against == SumIdx([t \in DOMAIN scores |-> scores[t].ScoredAgainst], DOMAIN scores)
        IN  /\ DOMAIN scores = TeamsOf(Survivors)
            /\ \A t \in DOMAIN scores :
                /\ scores[t].ScoredFor = OwnScores(t)
                /\ scores[t].ScoredAgainst = OpponentScores(t)
            /\ for + against = 2 * RawScoreTotal
            /\ for = against

\* for/against totals over two matches where a team scored otherwise than
\* its opponents did
C16_Witness ==
    /\ IsResult /\ endpoint = "for_against"
    /\ Len(Survivors) = 2
    /\ \E t \in DOMAIN response.body.df_scores :
        response.body.df_scores[t].ScoredFor # response.body.df_scores[t].ScoredAgainst

\* v is the k-th smallest of the values of f (k from 1): fewer than k values
\* are smaller and at least k are not greater
IsKthSmallest(f, k, v) ==
    /\ \E t \in DOMAIN f : f[t] = v
    /\ Cardinality({t \in DOMAIN f : f[t] < v}) < k
    /\ Cardinality({t \in DOMAIN f : f[t] <= v}) >= k

\* m, a fraction, is the median of the values of f
IsMedianOf(f, m) ==
    LET n == Cardinality(DOMAIN f)
        values == {f[t] : t \in DOMAIN f}
    IN  /\ m[2] > 0
        /\ IF n % 2 = 1
           THEN \E v \in values :
                    /\ IsKthSmallest(f, (n + 1) \div 2, v)
                    /\ m[1] = v * m[2]
           ELSE \E lo, hi \in values :
                    /\ IsKthSmallest(f, n \div 2, lo)
                    /\ IsKthSmallest(f, n \div 2 + 1, hi)
                    /\ 2 * m[1] = (lo + hi) * m[2]

(* C17: the reported median of ScoredFor, and of ScoredAgainst, over the   *)
(* teams is the middle value of the sorted totals when the number of teams *)
(* is odd and the average of the two middle values when it is even.        *)
C17_MedianOfTotals ==
    (IsResult /\ endpoint = "for_against" /\ response.body.df_scores # <<>>) =>
        LET scores == response.body.df_scores
        IN  /\ IsMedianOf([t \in DOMAIN scores |-> scores[t].ScoredFor],
                          response.body.median_scored_for)
            /\ IsMedianOf([t \in DOMAIN scores |-> scores[t].ScoredAgainst],
                          response.body.median_scored_against)

\* for/against totals of two teams with different ScoredFor, whose median
\* lies between the two
C17_Witness ==
    /\ IsResult /\ endpoint = "for_against"
    /\ Cardinality(DOMAIN response.body.df_scores) = 2
    /\ \A t \in DOMAIN response.body.df_scores :
        response.body.df_scores[t].ScoredFor * response.body.median_scored_for[2]
            # response.body.median_scored_for[1]

(* C18: for the sheet (match 1: A 10, B 8), (match 2: B 5, C 5),           *)
(* (match 3: A 7, C 9) the engine gives matrix_wins[A][B] = 1,             *)
(* matrix_wins[A][C] = 0, matrix_wins[B][C] = 0.5, ScoredFor[A] = 17 and   *)
(* ScoredAgainst[A] = 17.                                                  *)
C18_WorkedExample ==
    (df = Fixture /\ endpoint # "none" /\ width = ExpectedColumns) =>
        /\ IsResult
        /\ endpoint \in {"strength", "schedule_strength"} =>
            /\ response.body.matrix_wins[1][2] = Scale
            /\ response.body.matrix_wins[1][3] = 0
            /\ 2 * response.body.matrix_wins[2][3] = Scale
        /\ endpoint = "for_against" =>
            /\ response.body.df_scores[1].ScoredFor = 17
            /\ response.body.df_scores[1].ScoredAgainst = 17

\* a ranking computed from the sheet of the worked example
C18_Witness == df = Fixture /\ IsRanking

----------------------------------------------------------------------------
(* Vocabulary of the properties of the cache *)

\* the calls whose compute_fn is in flight
InFlight == {c \in Callers : pc[c] = "computing"}

\* a Match cell of the sheet is present and no number
HasTextMatch(sheet) == \E i \in DOMAIN sheet : sheet[i].match.kind = "str"

(* C1: under any interleaving of get_or_compute calls for one key, at most *)
(* one compute_fn for that key is in flight.                               *)
C1_OneComputationInFlight == Cardinality(InFlight) <= 1

(* C8: a row whose MatchId is present but no number makes the whole        *)
(* computation fail: the call that read it raises, its caller gets no      *)
(* ranking result, and the step writes nothing to the cache.               *)
C8_MalformedMatchIdFails ==
    [][\A c \in Callers :
        (pc[c] = "computing" /\ pc'[c] = "done" /\ HasTextMatch(fetched[c])) =>
            /\ outcome'[c].outcome = "raise"
            /\ IsErrorObject(StrengthEndpoint(outcome'[c]).body)
            /\ cache' = cache]_vars

\* a call that read the sheet with the malformed cell has ended, raising,
\* while the cache holds no entry for the key
C8_Witness ==
    \E c \in Callers :
        /\ pc[c] = "done"
        /\ HasTextMatch(fetched[c])
        /\ outcome[c].outcome = "raise"
        /\ CacheKey \notin DOMAIN cache

\* the cache holds an entry for k whose age is at most the TTL
Fresh(k) == k \in DOMAIN cache /\ now - cache[k].timestamp <= TtlSeconds

(* C19: a get_or_compute call made while the cache holds an entry for the  *)
(* key whose age is at most the TTL returns the value of that entry, does  *)
(* not invoke compute_fn and changes neither the cache nor the in-progress *)
(* table.                                                                  *)
C19_FreshEntryShortCircuits ==
    [][\A c \in Callers :
        (pc[c] = "idle" /\ pc'[c] # "idle" /\ Fresh(CacheKey)) =>
            /\ pc'[c] = "done"
            /\ outcome'[c] = Return(cache[CacheKey].value)
            /\ fetched' = fetched
            /\ InFlight' = InFlight
            /\ cache' = cache
            /\ in_progress' = in_progress
            /\ locks' = locks]_vars

\* a call has returned a value without ever reaching the in-progress lock
C19_Witness ==
    \E c \in Callers :
        /\ pc[c] = "done"
        /\ lockOf[c] = 0
        /\ outcome[c].outcome = "return"
        /\ fetched[c] = <<>>

(* C20: get(key) returns the stored value if and only if the cache holds   *)
(* an entry for key whose age since it was set is at most ttl_seconds, and *)
(* None otherwise; a get that finds the entry expired removes it, and      *)
(* every other entry is left as it is.                                     *)
C20_GetHonoursTtl ==
    \A k \in Keys :
        LET value == GetValue(cache, now, k)
            after == GetCache(cache, now, k)
        IN  /\ Fresh(k) => value = cache[k].value /\ after = cache
            /\ ~Fresh(k) => value = None
            /\ value # None => Fresh(k)
            /\ (k \in DOMAIN cache /\ ~Fresh(k)) => k \notin DOMAIN after
            /\ DOMAIN after \subseteq DOMAIN cache
            /\ \A j \in DOMAIN cache :
                j # k => j \in DOMAIN after /\ after[j] = cache[j]

\* the cache holds an entry whose age is exactly the TTL, which get returns,
\* and an entry of another key that is older, which get removes
C20_Witness ==
    \E k, j \in DOMAIN cache :
        /\ now - cache[k].timestamp = TtlSeconds
        /\ now - cache[j].timestamp > TtlSeconds

\* the compute_fn of call d, in flight, will return a value
WillSucceed(d) == ComputeStrength(fetched[d], ExpectedColumns).outcome = "return"

(* C21: a get_or_compute call that arrives while another call's compute_fn *)
(* for the key is in flight, and will succeed, does not invoke compute_fn  *)
(* itself; when it resumes with the entry within its TTL it returns the    *)
(* value of the entry.                                                     *)
C21_ArrivalsCoalesce ==
    [][\A c \in Callers :
        /\ (pc[c] = "idle" /\ \E d \in InFlight : WillSucceed(d)) =>
                pc'[c] # "computing"
        /\ (pc[c] = "woken" /\ pc'[c] # "woken" /\ Fresh(CacheKey)) =>
                /\ pc'[c] = "done"
                /\ outcome'[c] = Return(cache[CacheKey].value)]_vars

(* C22: when compute_fn raises inside get_or_compute, the exception        *)
(* reaches the caller of get_or_compute, no cache entry is written or      *)
(* changed, and the in-progress entry of the key is gone when the per-key  *)
(* lock is released.                                                       *)
C22_RaiseLeavesNoTrace ==
    [][\A c \in Callers :
        (pc[c] = "computing" /\ pc'[c] = "done"
            /\ ComputeStrength(fetched[c], ExpectedColumns).outcome = "raise") =>
            /\ outcome'[c] = ComputeStrength(fetched[c], ExpectedColumns)
            /\ cache' = cache
            /\ CacheKey \notin DOMAIN in_progress'
            /\ ~locks'[lockOf[c]].locked]_vars

\* a call whose compute_fn raised has ended while the cache holds the
\* snapshot another user set for the key
C22_Witness ==
    \E c \in Callers :
        /\ pc[c] = "done"
        /\ outcome[c].outcome = "raise"
        /\ CacheKey \in DOMAIN cache
        /\ cache[CacheKey].value = StaticData
        /\ CacheKey \notin DOMAIN in_progress

\* the get_or_compute calls that have started and not yet returned or raised
Pending == {c \in Callers : pc[c] \in {"waiting", "woken", "computing"}}

(* C24: whenever no get_or_compute call for the key is in flight, the      *)
(* in-progress table holds no entry for the key, also when set and clear   *)
(* are called on the cache in between.                                     *)
C24_NoInProgressLeak == Pending = {} => CacheKey \notin DOMAIN in_progress

\* every call has ended, one of them after waiting for the lock of another
\* and one after computing, and the in-progress table is empty
C24_Witness ==
    /\ \A c \in Callers : pc[c] = "done"
    /\ \E c \in Callers : lockOf[c] \notin {0, c}
    /\ \E c \in Callers : fetched[c] # <<>>
    /\ in_progress = <<>>

(* C23: if every compute_fn that is invoked returns or raises, every       *)
(* get_or_compute call that has started returns or raises: none waits for  *)
(* ever for the lock of the key.                                           *)
C23_EveryCallEnds ==
    \A c \in Callers : (c \in Pending) ~> (pc[c] = "done")

\* a call that had to wait for the lock another call made has ended, after
\* computing the value itself
C23_Witness ==
    \E c \in Callers :
        /\ pc[c] = "done"
        /\ lockOf[c] \notin {0, c}
        /\ fetched[c] # <<>>

(* C25: once the background refresh has failed, every key whose snapshot   *)
(* was loaded at startup is still served by the cache with the value of    *)
(* the snapshot (no later refresh exists that could replace it).           *)
C25_SnapshotsOutliveFailedRefresh ==
    refresh.pc = "failed" =>
        \A k \in refresh.loaded : GetValue(cache, now, k) = Snapshot(k)

====
